---- MODULE Spec2Model ----
(***************************************************************************)
(* Junior church attendance ETL.                                           *)
(*                                                                         *)
(*   incremental mode: proposed_workflow/etl_pipeline.py,                  *)
(*                     process_attendance(df, conn) against a PostgreSQL   *)
(*                     store reached through one psycopg2 connection;      *)
(*   batch mode:       export_to_csv.py, a module-level script over the    *)
(*                     sheets of one workbook.                             *)
(*                                                                         *)
(* A spreadsheet cell is a record [nan, v]: nan is TRUE for an empty cell  *)
(* (pandas reads it as NaN), v is the value otherwise.  A string is a      *)
(* sequence of tokens; the token " " is white space.                       *)
(***************************************************************************)
EXTENDS Integers, Sequences, FiniteSets, TLC

\* ------------------------------------------------------------------ bounds
MaxRows  == 2    \* submissions processed over all runs of process_attendance
MaxRuns  == 2    \* runs of process_attendance
MaxDay   == 2    \* calendar days date.today() ranges over
MaxFaults == 1   \* store faults injected
MaxBatchRows == 2 \* rows of the workbook, over all its sheets
MaxTableRows == 2 \* rows of a table handed to the validation alone
MaxId == 3        \* ids the rows of such a table refer to

\* ------------------------------------------------------- program constants
NumSlots == 3           \* range(1, 4): child slots of one row
ATTENDANCE_DATE == 26   \* '2026-01-26', the batch's fixed date
NumConns == 2           \* connections to the store (one per run in flight)

Conns == 1..NumConns
None == 0               \* Python None / no row, where an id (>= 1) is expected

\* ------------------------------------------------------------------- cells
NaN == [nan |-> TRUE, v |-> <<>>]
NaNNum == [nan |-> TRUE, v |-> 0]
Cell(x) == [nan |-> FALSE, v |-> x]

\* pd.isna
IsNa(c) == c.nan

\* str(): an empty cell is the float nan, whose str() is 'nan'
Str(c) == IF c.nan THEN <<"n", "a", "n">> ELSE c.v

RECURSIVE LStrip(_)
LStrip(s) == IF s # <<>> /\ Head(s) = " " THEN LStrip(Tail(s)) ELSE s

RECURSIVE RStrip(_)
RStrip(s) ==
  IF s # <<>> /\ s[Len(s)] = " " THEN RStrip(SubSeq(s, 1, Len(s) - 1)) ELSE s

\* str.strip
Strip(s) == RStrip(LStrip(s))

UpperChar(c) ==
  CASE c = "j" -> "J"
    [] c = "n" -> "N"
    [] c = "a" -> "A"
    [] c = "p" -> "P"
    [] OTHER -> c

\* str.upper / SQL UPPER
Upper(s) == [i \in 1..Len(s) |-> UpperChar(s[i])]

\* A cell that is empty or blank.
MissingOrEmpty(cell) == IsNa(cell) \/ Strip(cell.v) = <<>>

\* row.get(label, default): the default only when the sheet has no such column
RowGet(absent, label, cell, default) ==
  IF label \in absent THEN default ELSE cell

\* gender not in ['Male', 'Female'] -> 'Male'
CleanGender(g) == IF g \in {<<"Male">>, <<"Female">>} THEN g ELSE <<"Male">>

\* int(child_age) if not pd.isna(child_age) else 0
CleanAge(c) == IF IsNa(c) THEN 0 ELSE c.v

\* pd.to_datetime(timestamp).date(): a timestamp is day * 100 + hour; NaN is
\* truthy and pd.to_datetime(NaN).date() is NaT
NaT == 0 - 1
TimestampDate(ts) == IF IsNa(ts) THEN NaT ELSE ts.v \div 100

\* ---------------------------------------------------------------- the input
\* One child slot of a row: name, age, gender and check-in cells.
SlotBlank == [name |-> Cell(<<" ">>), age |-> NaNNum, gender |-> NaN, ci |-> NaNNum]
SlotNaN   == [name |-> NaN, age |-> NaNNum, gender |-> NaN, ci |-> NaNNum]
SlotJ     == [name |-> Cell(<<"j">>), age |-> Cell(8),
              gender |-> Cell(<<"Female">>), ci |-> Cell(1)]
SlotJ2    == [name |-> Cell(<<" ", "J">>), age |-> Cell(8),
              gender |-> Cell(<<"x">>), ci |-> Cell(0)]
SlotJ0    == [name |-> Cell(<<"j">>), age |-> NaNNum,
              gender |-> Cell(<<"Female">>), ci |-> NaNNum]

\* The three child slots of a row.
Kids ==
  { <<SlotJ, SlotBlank, SlotBlank>>,
    <<SlotJ2, SlotBlank, SlotBlank>>,
    <<SlotJ, SlotJ0, SlotBlank>>,
    <<SlotJ, SlotJ2, SlotBlank>>,
    <<SlotJ, SlotJ, SlotBlank>>,
    <<SlotBlank, SlotBlank, SlotBlank>>,
    <<SlotNaN, SlotBlank, SlotJ>> }

\* A row of the form's CSV export.
IncRow(name, phone, ts, kids) ==
  [name |-> name, phone |-> phone, gender |-> Cell(<<"Female">>), ts |-> ts,
   service |-> Cell(<<"Second Service">>), kids |-> kids]

\* The submissions: one family with every shape of child slots; the same
\* children under another phone, an empty name cell, an empty phone cell and a
\* blank phone; a later hour of the same day and an empty timestamp cell.
IncRows ==
  { IncRow(Cell(<<"p">>), Cell(<<"1">>), Cell(109), k) : k \in Kids }
  \cup
  { IncRow(Cell(<<"p">>), Cell(<<"2", " ">>), Cell(109), <<SlotJ, SlotBlank, SlotBlank>>),
    IncRow(NaN, Cell(<<"1">>), Cell(109), <<SlotJ, SlotBlank, SlotBlank>>),
    IncRow(Cell(<<"p">>), NaN, Cell(109), <<SlotJ, SlotBlank, SlotBlank>>),
    IncRow(Cell(<<"p">>), Cell(<<" ">>), Cell(109), <<SlotJ, SlotBlank, SlotBlank>>),
    IncRow(Cell(<<"p">>), Cell(<<"1">>), Cell(111), <<SlotJ, SlotBlank, SlotBlank>>),
    IncRow(Cell(<<"p">>), Cell(<<"1">>), NaN, <<SlotJ, SlotJ0, SlotBlank>>) }

\* Columns the export may lack.
AbsentColumns == { {}, {"Timestamp"}, {"Your Phone"} }

\* ---------------------------------------------------------------- the store
EmptyTables == [parents |-> {}, children |-> {}, attendance |-> {}]

TablesUnion(t, u) ==
  [parents |-> t.parents \cup u.parents,
   children |-> t.children \cup u.children,
   attendance |-> t.attendance \cup u.attendance]

VARIABLES
  mode,        \* "incremental" or "batch": which program runs
  today,       \* date.today()
  committed,   \* the store's committed tables
  work,        \* per connection: rows inserted by its open transaction
  seq,         \* the store's id sequences (never rolled back)
  run,         \* per connection: process_attendance's locals and position
  budget,      \* submissions left, runs left, faults left
  prev,        \* the submission processed last (for the second pass)
  resolved     \* per connection: the run's child resolutions (key and child_id)

incVars == <<mode, today, committed, work, seq, run, budget, prev, resolved>>

\* What connection c's statements see (READ COMMITTED).
Visible(c) == TablesUnion(committed, work[c])

ZeroStats(n) ==
  [total_submissions |-> n, new_parents |-> 0, existing_parents |-> 0,
   new_children |-> 0, existing_children |-> 0, attendance_recorded |-> 0,
   errors |-> 0]

NoRow ==
  [name |-> NaN, phone |-> NaN, gender |-> NaN, ts |-> NaN, service |-> NaN,
   kids |-> <<SlotBlank, SlotBlank, SlotBlank>>]

\* The locals of one row, before the row is read.
NoLocals ==
  [row |-> NoRow, parent_name |-> <<>>, parent_phone |-> <<>>,
   parent_gender |-> <<>>, attendance_date |-> 0, parent_id |-> None,
   child_num |-> 0, child_name |-> <<>>, child_age |-> 0,
   child_gender |-> <<>>, service_name |-> <<>>, child_id |-> None]

NoGhost ==
  [rowDone |-> FALSE, repeat |-> FALSE, sameDay |-> FALSE, day |-> 0,
   start |-> [p |-> 0, c |-> 0, a |-> 0, rec |-> 0, err |-> 0],
   rejected |-> FALSE, raised |-> FALSE]

IdleRun ==
  [pc |-> "idle", n |-> 0, idx |-> 0, absent |-> {}, txn |-> "ok",
   stats |-> ZeroStats(0), loc |-> NoLocals, g |-> NoGhost,
   cleanWork |-> EmptyTables, overlapped |-> FALSE,
   hasRaised |-> FALSE, later |-> {}, base |-> [p |-> 0, c |-> 0, a |-> 0],
   named |-> 0]

IncInit ==
  /\ today = 1
  /\ committed = EmptyTables
  /\ work = [c \in Conns |-> EmptyTables]
  /\ seq = [parent |-> 1, child |-> 1, attendance |-> 1]
  /\ run = [c \in Conns |-> IdleRun]
  /\ budget = [rows |-> MaxRows, runs |-> MaxRuns, faults |-> MaxFaults]
  /\ prev = [valid |-> FALSE, row |-> NoRow, absent |-> {}, day |-> 0]
  /\ resolved = [c \in Conns |-> {}]

\* -------------------------------------------------- process_attendance(df, conn)
Counts(c) ==
  [p |-> Cardinality(Visible(c).parents),
   c |-> Cardinality(Visible(c).children),
   a |-> Cardinality(Visible(c).attendance)]

\* The row's iteration ends (its last slot is done, or a 'continue' is taken).
\* hasRaised: a row of the run has raised; later: the rows that passed the
\* validation, with a date, after a row of the run had raised; base: the
\* numbers of committed rows when the run started; named: the child slots with
\* a name, over the rows that passed the validation.
RowEnds(rc, rejected, raised) ==
  [rc EXCEPT !.pc = "loop", !.idx = @ + 1, !.loc = NoLocals,
             !.g.rowDone = TRUE, !.g.rejected = rejected, !.g.raised = raised]

\* except Exception: stats['errors'] += 1; continue
RowRaises(rc) ==
  RowEnds([rc EXCEPT !.stats.errors = @ + 1, !.hasRaised = TRUE], FALSE, TRUE)

Remember(rc) ==
  [valid |-> TRUE, row |-> rc.loc.row, absent |-> rc.absent, day |-> rc.g.day]

\* The connections with a run in flight.
InFlight == {d \in Conns : run[d].pc \notin {"idle", "done", "failed"}}

\* main() connects and calls process_attendance on a non-empty export.
\* overlap: whether a run may start while another one is in flight.
StartRun(c, n, absent, overlap) ==
  /\ mode = "incremental"
  /\ run[c].pc \in {"idle", "done", "failed"}
  /\ overlap \/ (c = 1 /\ InFlight = {})
  /\ budget.runs > 0
  /\ n \in 1..budget.rows
  /\ run' = [d \in Conns |->
       IF d = c
         THEN [IdleRun EXCEPT !.pc = "loop", !.n = n, !.absent = absent,
                              !.stats = ZeroStats(n),
                              !.base = [p |-> Cardinality(committed.parents),
                                        c |-> Cardinality(committed.children),
                                        a |-> Cardinality(committed.attendance)],
                              !.overlapped = run[c].overlapped \/ InFlight # {}]
         ELSE [run[d] EXCEPT !.overlapped = @ \/ d \in InFlight]]
  /\ work' = [work EXCEPT ![c] = EmptyTables]
  /\ budget' = [budget EXCEPT !.runs = @ - 1, !.rows = @ - n]
  /\ resolved' = [resolved EXCEPT ![c] = {}]
  /\ UNCHANGED <<mode, today, committed, seq, prev>>

\* for idx, row in df.iterrows(): the row's fields are read and validated.
NextRow(c, r) ==
  LET rc == run[c]
      parent_name == Strip(Str(RowGet(rc.absent, "Your Name", r.name, Cell(<<>>))))
      parent_phone == Strip(Str(RowGet(rc.absent, "Your Phone", r.phone, Cell(<<>>))))
      parent_gender == CleanGender(Strip(Str(r.gender)))
      attendance_date ==
        IF "Timestamp" \in rc.absent THEN today ELSE TimestampDate(r.ts)
      g == [NoGhost EXCEPT
              !.repeat = prev.valid /\ prev.row = r /\ prev.absent = rc.absent,
              !.sameDay = (prev.day = today),
              !.day = today,
              !.start = [p |-> Counts(c).p, c |-> Counts(c).c, a |-> Counts(c).a,
                         rec |-> rc.stats.attendance_recorded,
                         err |-> rc.stats.errors]]
      read == [rc EXCEPT !.g = g, !.loc.row = r]
  IN
  /\ rc.pc = "loop"
  /\ rc.idx < rc.n
  /\ IF parent_phone = <<>> \/ parent_name = <<>>
       THEN run' = [run EXCEPT ![c] =
              RowEnds([read EXCEPT !.stats.errors = @ + 1], TRUE, FALSE)]
            /\ prev' = Remember(read)
       ELSE run' = [run EXCEPT ![c] =
              [read EXCEPT !.pc = "parent_sel",
                           !.loc.parent_name = parent_name,
                           !.loc.parent_phone = parent_phone,
                           !.loc.parent_gender = parent_gender,
                           !.loc.attendance_date = attendance_date,
                           !.later = IF rc.hasRaised /\ attendance_date # NaT
                                       THEN @ \cup {r} ELSE @,
                           !.named = @ + Cardinality({k \in 1..NumSlots :
                                            ~MissingOrEmpty(r.kids[k].name)})]]
            /\ UNCHANGED prev
  /\ UNCHANGED <<mode, today, committed, work, seq, budget, resolved>>

\* The lookup with the parent's name in the place of the phone column.
ParentMatchesByName(p, parent_phone) == p.full_name = parent_phone

\* WHERE phone_number = %s
ParentMatches(p, parent_phone) == p.phone_number = parent_phone

\* SELECT parent_id FROM parents WHERE phone_number = %s; fetchone()
ParentSelect(c) ==
  LET rc == run[c]
      found == {p \in Visible(c).parents : ParentMatches(p, rc.loc.parent_phone)}
  IN
  /\ rc.pc = "parent_sel"
  /\ rc.txn = "ok"
  /\ IF found # {}
       THEN \E p \in found :
              run' = [run EXCEPT ![c] =
                [rc EXCEPT !.pc = "slot", !.loc.parent_id = p.parent_id,
                           !.loc.child_num = 1,
                           !.stats.existing_parents = @ + 1]]
       ELSE run' = [run EXCEPT ![c].pc = "parent_ins"]
  /\ UNCHANGED <<mode, today, committed, work, seq, budget, prev, resolved>>

\* The insert put off until a child needs the parent.
ParentInsertDeferred(c) ==
  LET rc == run[c] IN
  /\ rc.pc = "parent_ins"
  /\ rc.txn = "ok"
  /\ seq' = [seq EXCEPT !.parent = @ + 1]
  /\ run' = [run EXCEPT ![c] =
       [rc EXCEPT !.pc = "slot", !.loc.parent_id = seq.parent,
                  !.loc.child_num = 1, !.stats.new_parents = @ + 1]]
  /\ UNCHANGED <<mode, today, committed, work, budget, prev, resolved>>

\* INSERT INTO parents (...) RETURNING parent_id
ParentInsert(c) ==
  LET rc == run[c]
      new == [parent_id |-> seq.parent, full_name |-> rc.loc.parent_name,
              phone_number |-> rc.loc.parent_phone,
              gender |-> rc.loc.parent_gender]
  IN
  /\ rc.pc = "parent_ins"
  /\ rc.txn = "ok"
  /\ work' = [work EXCEPT ![c].parents = @ \cup {new}]
  /\ seq' = [seq EXCEPT !.parent = @ + 1]
  /\ run' = [run EXCEPT ![c] =
       [rc EXCEPT !.pc = "slot", !.loc.parent_id = new.parent_id,
                  !.loc.child_num = 1, !.stats.new_parents = @ + 1]]
  /\ UNCHANGED <<mode, today, committed, budget, prev, resolved>>

\* for child_num in range(1, 4): the slot's fields are read and cleaned.
ChildSlot(c) ==
  LET rc == run[c]
      slot == rc.loc.row.kids[rc.loc.child_num]
      child_name == Strip(Str(slot.name))
  IN
  /\ rc.pc = "slot"
  /\ IF rc.loc.child_num > NumSlots
       THEN run' = [run EXCEPT ![c] =
              RowEnds([rc EXCEPT !.cleanWork = work[c]], FALSE, FALSE)]
            /\ prev' = Remember(rc)
       ELSE /\ UNCHANGED prev
            /\ IF child_name = <<>>
                 THEN run' = [run EXCEPT ![c].loc.child_num = @ + 1]
                 ELSE run' = [run EXCEPT ![c] =
                   [rc EXCEPT !.pc = "child_sel",
                              !.loc.child_name = child_name,
                              !.loc.child_age = CleanAge(slot.age),
                              !.loc.child_gender =
                                 CleanGender(Strip(Str(slot.gender))),
                              !.loc.service_name =
                                 Strip(Str(rc.loc.row.service))]]
  /\ UNCHANGED <<mode, today, committed, work, seq, budget, resolved>>

\* The lookup without UPPER() on either side.
ChildMatchesCaseSensitive(ch, parent_id, child_name, child_age) ==
  /\ ch.parent_id = parent_id
  /\ ch.full_name = child_name
  /\ ch.age = child_age

\* The lookup without the age condition.
ChildMatchesAnyAge(ch, parent_id, child_name, child_age) ==
  /\ ch.parent_id = parent_id
  /\ Upper(ch.full_name) = Upper(child_name)

\* WHERE parent_id = %s AND UPPER(full_name) = UPPER(%s) AND age = %s
ChildMatches(ch, parent_id, child_name, child_age) ==
  /\ ch.parent_id = parent_id
  /\ Upper(ch.full_name) = Upper(child_name)
  /\ ch.age = child_age

\* The resolution of the slot at hand to child_id.
Resolution(rc, child_id) ==
  [parent_id |-> rc.loc.parent_id, name |-> Upper(rc.loc.child_name),
   age |-> rc.loc.child_age, child_id |-> child_id]

\* SELECT child_id FROM children WHERE ...; fetchone()
ChildSelect(c) ==
  LET rc == run[c]
      found == {ch \in Visible(c).children :
                  ChildMatches(ch, rc.loc.parent_id, rc.loc.child_name,
                               rc.loc.child_age)}
  IN
  /\ rc.pc = "child_sel"
  /\ rc.txn = "ok"
  /\ IF found # {}
       THEN \E ch \in found :
              /\ run' = [run EXCEPT ![c] =
                   [rc EXCEPT !.pc = "att_ins", !.loc.child_id = ch.child_id,
                              !.stats.existing_children = @ + 1]]
              /\ resolved' = [resolved EXCEPT ![c] = @ \cup {Resolution(rc, ch.child_id)}]
       ELSE /\ run' = [run EXCEPT ![c].pc = "child_ins"]
            /\ UNCHANGED resolved
  /\ UNCHANGED <<mode, today, committed, work, seq, budget, prev>>

\* INSERT INTO children (...) RETURNING child_id
ChildInsert(c) ==
  LET rc == run[c]
      new == [child_id |-> seq.child, parent_id |-> rc.loc.parent_id,
              full_name |-> rc.loc.child_name, age |-> rc.loc.child_age,
              gender |-> rc.loc.child_gender]
  IN
  /\ rc.pc = "child_ins"
  /\ rc.txn = "ok"
  /\ work' = [work EXCEPT ![c].children = @ \cup {new}]
  /\ seq' = [seq EXCEPT !.child = @ + 1]
  /\ run' = [run EXCEPT ![c] =
       [rc EXCEPT !.pc = "att_ins", !.loc.child_id = new.child_id,
                  !.stats.new_children = @ + 1]]
  /\ resolved' = [resolved EXCEPT ![c] = @ \cup {Resolution(rc, new.child_id)}]
  /\ UNCHANGED <<mode, today, committed, budget, prev>>

\* The natural key of an attendance row.
AttendanceKey(a) == <<a.child_id, a.service_name, a.attendance_date>>

\* A conflict target that no two rows ever share.
ConflictsOnId(a, b) == a.attendance_id = b.attendance_id

\* ON CONFLICT (child_id, service_name, attendance_date)
Conflicts(a, b) == AttendanceKey(a) = AttendanceKey(b)

\* The insert with the date worked out anew for each child slot.
AttendanceInsertDatePerSlot(c) ==
  LET rc == run[c]
      attendance_date ==
        IF "Timestamp" \in rc.absent THEN today ELSE rc.loc.attendance_date
      new == [attendance_id |-> seq.attendance, child_id |-> rc.loc.child_id,
              service_name |-> rc.loc.service_name,
              attendance_date |-> attendance_date]
  IN
  /\ rc.pc = "att_ins"
  /\ rc.txn = "ok"
  /\ IF attendance_date = NaT
       THEN /\ run' = [run EXCEPT ![c] = RowRaises(rc)]
            /\ prev' = Remember(rc)
            /\ UNCHANGED <<work, seq>>
       ELSE /\ \A d \in Conns \ {c} :
                 \A a \in work[d].attendance : ~Conflicts(a, new)
            /\ UNCHANGED prev
            /\ IF \E a \in Visible(c).attendance : Conflicts(a, new)
                 THEN /\ run' = [run EXCEPT ![c] =
                           [rc EXCEPT !.pc = "slot", !.loc.child_num = @ + 1]]
                      /\ UNCHANGED <<work, seq>>
                 ELSE /\ work' = [work EXCEPT ![c].attendance = @ \cup {new}]
                      /\ seq' = [seq EXCEPT !.attendance = @ + 1]
                      /\ run' = [run EXCEPT ![c] =
                           [rc EXCEPT !.pc = "slot", !.loc.child_num = @ + 1,
                                      !.stats.attendance_recorded = @ + 1]]
  /\ UNCHANGED <<mode, today, committed, budget, resolved>>

\* INSERT INTO attendance (...) ON CONFLICT (...) DO NOTHING; cursor.rowcount.
\* A NaT date cannot be adapted: execute raises before anything is sent.  An
\* insert that conflicts with another open transaction's row waits for it.
AttendanceInsert(c) ==
  LET rc == run[c]
      new == [attendance_id |-> seq.attendance, child_id |-> rc.loc.child_id,
              service_name |-> rc.loc.service_name,
              attendance_date |-> rc.loc.attendance_date]
  IN
  /\ rc.pc = "att_ins"
  /\ rc.txn = "ok"
  /\ IF rc.loc.attendance_date = NaT
       THEN /\ run' = [run EXCEPT ![c] = RowRaises(rc)]
            /\ prev' = Remember(rc)
            /\ UNCHANGED <<work, seq>>
       ELSE /\ \A d \in Conns \ {c} :
                 \A a \in work[d].attendance : ~Conflicts(a, new)
            /\ UNCHANGED prev
            /\ IF \E a \in Visible(c).attendance : Conflicts(a, new)
                 THEN /\ run' = [run EXCEPT ![c] =
                           [rc EXCEPT !.pc = "slot", !.loc.child_num = @ + 1]]
                      /\ UNCHANGED <<work, seq>>
                 ELSE /\ work' = [work EXCEPT ![c].attendance = @ \cup {new}]
                      /\ seq' = [seq EXCEPT !.attendance = @ + 1]
                      /\ run' = [run EXCEPT ![c] =
                           [rc EXCEPT !.pc = "slot", !.loc.child_num = @ + 1,
                                      !.stats.attendance_recorded = @ + 1]]
  /\ UNCHANGED <<mode, today, committed, budget, resolved>>

\* The positions at which cursor.execute is about to run.
ExecPcs == {"parent_sel", "parent_ins", "child_sel", "child_ins", "att_ins"}

\* The store fails the statement about to run: a server-side error leaves the
\* transaction aborted, a lost connection leaves it down.  psycopg2 raises and
\* the row's except clause takes over.  The row at hand fails by itself: it is
\* no longer one of the rows only an earlier failure can harm.
StoreFault(c, kind) ==
  /\ run[c].pc \in ExecPcs
  /\ run[c].txn = "ok"
  /\ budget.faults > 0
  /\ kind \in {"aborted", "down"}
  /\ budget' = [budget EXCEPT !.faults = @ - 1]
  /\ run' = [run EXCEPT ![c] =
       RowRaises([run[c] EXCEPT !.txn = kind, !.later = @ \ {run[c].loc.row}])]
  /\ prev' = Remember(run[c])
  /\ UNCHANGED <<mode, today, committed, work, seq, resolved>>

\* cursor.execute on an aborted transaction or a lost connection raises.
ExecuteRaises(c) ==
  /\ run[c].pc \in ExecPcs
  /\ run[c].txn # "ok"
  /\ run' = [run EXCEPT ![c] = RowRaises(run[c])]
  /\ prev' = Remember(run[c])
  /\ UNCHANGED <<mode, today, committed, work, seq, budget, resolved>>

\* conn.commit() after the loop: the one commit of the run.  On an aborted
\* transaction the server rolls back; on a lost connection commit raises and
\* main() re-raises.
Commit(c) ==
  LET rc == run[c] IN
  /\ rc.pc = "loop"
  /\ rc.idx = rc.n
  /\ committed' =
       IF rc.txn = "ok" THEN TablesUnion(committed, work[c]) ELSE committed
  /\ work' = [work EXCEPT ![c] = EmptyTables]
  /\ run' = [run EXCEPT ![c] =
       [rc EXCEPT !.pc = IF rc.txn = "down" THEN "failed" ELSE "done",
                  !.g = NoGhost]]
  /\ prev' = IF rc.txn = "ok" THEN prev ELSE [prev EXCEPT !.valid = FALSE]
  /\ UNCHANGED <<mode, today, seq, budget, resolved>>

\* Midnight passes.
Tick ==
  /\ mode = "incremental"
  /\ today < MaxDay
  /\ today' = today + 1
  /\ UNCHANGED <<mode, committed, work, seq, run, budget, prev, resolved>>

IncStep(c, rows) ==
  \/ \E r \in rows : NextRow(c, r)
  \/ ParentSelect(c)
  \/ ParentInsert(c)
  \/ ChildSlot(c)
  \/ ChildSelect(c)
  \/ ChildInsert(c)
  \/ AttendanceInsert(c)
  \/ \E kind \in {"aborted", "down"} : StoreFault(c, kind)
  \/ ExecuteRaises(c)
  \/ Commit(c)

\* ============================================================ export_to_csv.py
\* A row of a service sheet; a sheet is [name, rows].
BatchRow(id, full_name, kids) == [ID |-> id, full_name |-> full_name, kids |-> kids]

BatchRows ==
  { BatchRow(id, Cell(<<"p">>), k) : id \in {Cell(20), Cell(10), NaNNum}, k \in Kids }
  \cup { BatchRow(Cell(10), Cell(<<"q">>), <<SlotJ, SlotBlank, SlotBlank>>) }

SheetNames == <<<<"First Service">>, <<"Second Service">>>>

RECURSIVE SeqsUpTo(_, _)
\* The sequences over S of length at most n.
SeqsUpTo(S, n) ==
  IF n = 0 THEN {<<>>}
  ELSE LET shorter == SeqsUpTo(S, n - 1)
       IN  shorter \cup {Append(q, x) : q \in {r \in shorter : Len(r) = n - 1}, x \in S}

\* A workbook: two service sheets.
Workbook(a, b) ==
  <<[name |-> SheetNames[1], rows |-> a], [name |-> SheetNames[2], rows |-> b]>>

VARIABLES
  sheets,          \* pd.read_excel(excel_file, sheet_name=None)
  checkinCols,     \* whether the sheets have the 'Child N (check-in)' columns
  bpc,             \* the script's position
  unique_parents,  \* the Parents table, with original_id
  parent_mapping,  \* original_id -> parent_id
  children_unique, \* the Children table
  child_lookup,    \* dedupe key -> child_id
  attendance_df,   \* the Attendance table
  exported,        \* the CSV files written
  validation       \* what the validation printed

batchVars == <<sheets, checkinCols, bpc, unique_parents, parent_mapping,
               children_unique, child_lookup, attendance_df, exported, validation>>

vars == <<mode, today, committed, work, seq, run, budget, prev, resolved,
          sheets, checkinCols, bpc, unique_parents, parent_mapping,
          children_unique, child_lookup, attendance_df, exported, validation>>

RECURSIVE Concat(_)
\* pd.concat(all_data, ignore_index=True)
Concat(ss) == IF ss = <<>> THEN <<>> ELSE Head(ss).rows \o Concat(Tail(ss))

RECURSIVE KeepLast(_, _, _)
\* keep='last': the rows whose key does not occur again.
KeepLast(rows, keys, seen) ==
  IF rows = <<>> THEN <<>>
  ELSE IF \E j \in 2..Len(keys) : keys[j] = Head(keys)
         THEN KeepLast(Tail(rows), Tail(keys), seen)
         ELSE <<Head(rows)>> \o KeepLast(Tail(rows), Tail(keys), seen)

\* drop_duplicates(subset=[key], keep='first'): the rows whose key did not occur
\* before; empty cells count as equal.
RECURSIVE KeepFirst(_, _, _)
KeepFirst(rows, keys, seen) ==
  IF rows = <<>> THEN <<>>
  ELSE IF Head(keys) \in seen
         THEN KeepFirst(Tail(rows), Tail(keys), seen)
         ELSE <<Head(rows)>> \o KeepFirst(Tail(rows), Tail(keys), seen \cup {Head(keys)})

\* original_id order of sort_values: ascending, empty cells last
IdBefore(a, b) == ~IsNa(a) /\ (IsNa(b) \/ a.v < b.v)

\* The rows left in the order of first encounter.
SortValuesUnsorted(rows) == rows

RECURSIVE SortValues(_)
\* sort_values('original_id') of rows with distinct ids
SortValues(rows) ==
  IF rows = <<>> THEN <<>>
  ELSE LET i == CHOOSE i \in 1..Len(rows) :
                  \A j \in 1..Len(rows) : j = i \/ IdBefore(rows[i].ID, rows[j].ID)
           rest == [j \in 1..(Len(rows) - 1) |-> IF j < i THEN rows[j] ELSE rows[j + 1]]
       IN  <<rows[i]>> \o SortValues(rest)

\* STEP 1: unique parents, sorted by original id, numbered from 1
UniqueParents(ss) ==
  LET combined == Concat(ss)
      ids == [i \in 1..Len(combined) |-> combined[i].ID]
      sorted == SortValues(KeepFirst(combined, ids, {}))
  IN  [i \in 1..Len(sorted) |->
         [parent_id |-> i, original_id |-> sorted[i].ID,
          full_name |-> sorted[i].full_name]]

\* dict(zip(original_id, parent_id))
ParentMapping(parents) ==
  {<<parents[i].original_id, parents[i].parent_id>> : i \in 1..Len(parents)}

\* The lookup handing back the original id in the place of the new parent_id.
MappingGetOriginal(mapping, id) ==
  IF IsNa(id) \/ ~\E e \in mapping : e[1] = id THEN None
  ELSE id.v

\* parent_mapping.get(id): a nan key is never found again (nan != nan)
MappingGet(mapping, id) ==
  IF IsNa(id) \/ ~\E e \in mapping : e[1] = id THEN None
  ELSE (CHOOSE e \in mapping : e[1] = id)[2]

\* pd.isna(child_name) or str(child_name).strip() == ''
SlotIsEmpty(slot) == IsNa(slot.name) \/ Strip(Str(slot.name)) = <<>>

\* f"{parent_id}_{name.upper()}_{age}": the two integers and the name between
\* the first and the last underscore determine the string, and conversely
DedupeKey(parent_id, name, age) == <<parent_id, Upper(name), age>>

\* the child_record of one slot
ChildRecord(parent_id, slot) ==
  [parent_id |-> parent_id, full_name |-> Strip(Str(slot.name)),
   age |-> CleanAge(slot.age), gender |-> Strip(Str(slot.gender)),
   dedupe_key |-> DedupeKey(parent_id, Strip(Str(slot.name)), CleanAge(slot.age))]

RECURSIVE SlotChildren(_, _, _)
\* for child_num in range(1, 4), in STEP 2
SlotChildren(parent_id, kids, child_num) ==
  IF child_num > NumSlots THEN <<>>
  ELSE (IF SlotIsEmpty(kids[child_num]) THEN <<>>
        ELSE <<ChildRecord(parent_id, kids[child_num])>>)
       \o SlotChildren(parent_id, kids, child_num + 1)

RECURSIVE RowChildren(_, _)
\* for _, row in df.iterrows(), in STEP 2
RowChildren(rows, mapping) ==
  IF rows = <<>> THEN <<>>
  ELSE (IF MappingGet(mapping, Head(rows).ID) = None THEN <<>>
        ELSE SlotChildren(MappingGet(mapping, Head(rows).ID), Head(rows).kids, 1))
       \o RowChildren(Tail(rows), mapping)

RECURSIVE AllChildren(_, _)
\* for sheet_name, df in sheets.items(), in STEP 2
AllChildren(ss, mapping) ==
  IF ss = <<>> THEN <<>>
  ELSE RowChildren(Head(ss).rows, mapping) \o AllChildren(Tail(ss), mapping)

\* drop_duplicates(subset=['dedupe_key'], keep='first'), child_id from 1
ChildrenUnique(all_children) ==
  LET keys == [i \in 1..Len(all_children) |-> all_children[i].dedupe_key]
      kept == KeepFirst(all_children, keys, {})
  IN  [i \in 1..Len(kept) |->
         [child_id |-> i, parent_id |-> kept[i].parent_id,
          full_name |-> kept[i].full_name, age |-> kept[i].age,
          gender |-> kept[i].gender]]

\* child_lookup[key] = child['child_id'], over children_unique
ChildLookup(children) ==
  {<<DedupeKey(children[i].parent_id, children[i].full_name, children[i].age),
     children[i].child_id>> : i \in 1..Len(children)}

\* child_lookup.get(lookup_key)
LookupGet(lookup, key) ==
  IF ~\E e \in lookup : e[1] = key THEN None
  ELSE (CHOOSE e \in lookup : e[1] = key)[2]

\* checkin_col in row and not pd.isna(row[checkin_col]) and row[checkin_col] == 1
WasPresent(hasCol, slot) == hasCol /\ ~IsNa(slot.ci) /\ slot.ci.v = 1

RECURSIVE SlotAttendance(_, _, _, _, _, _)
\* for child_num in range(1, 4), in STEP 3
SlotAttendance(parent_id, kids, child_num, service_name, lookup, hasCol) ==
  IF child_num > NumSlots THEN <<>>
  ELSE LET slot == kids[child_num]
           child_id == LookupGet(lookup,
             DedupeKey(parent_id, Strip(Str(slot.name)), CleanAge(slot.age)))
       IN (IF SlotIsEmpty(slot) \/ child_id = None \/ ~WasPresent(hasCol, slot)
             THEN <<>>
             ELSE <<[child_id |-> child_id, service_name |-> service_name,
                     attendance_date |-> ATTENDANCE_DATE]>>)
          \o SlotAttendance(parent_id, kids, child_num + 1, service_name, lookup, hasCol)

RECURSIVE RowAttendance(_, _, _, _, _)
\* for _, row in df.iterrows(), in STEP 3
RowAttendance(rows, service_name, mapping, lookup, hasCol) ==
  IF rows = <<>> THEN <<>>
  ELSE (IF MappingGet(mapping, Head(rows).ID) = None THEN <<>>
        ELSE SlotAttendance(MappingGet(mapping, Head(rows).ID), Head(rows).kids, 1,
                            service_name, lookup, hasCol))
       \o RowAttendance(Tail(rows), service_name, mapping, lookup, hasCol)

RECURSIVE AllAttendance(_, _, _, _)
\* for sheet_name, df in sheets.items(), in STEP 3
AllAttendance(ss, mapping, lookup, hasCol) ==
  IF ss = <<>> THEN <<>>
  ELSE RowAttendance(Head(ss).rows, Head(ss).name, mapping, lookup, hasCol)
       \o AllAttendance(Tail(ss), mapping, lookup, hasCol)

\* attendance_df.insert(0, 'attendance_id', range(1, len + 1))
AttendanceDf(all_attendance) ==
  [i \in 1..Len(all_attendance) |->
     [attendance_id |-> i, child_id |-> all_attendance[i].child_id,
      service_name |-> all_attendance[i].service_name,
      attendance_date |-> all_attendance[i].attendance_date]]

Column(table, field) == {table[i][field] : i \in 1..Len(table)}

BatchInit ==
  /\ \E a \in SeqsUpTo(BatchRows, MaxBatchRows) :
       \E b \in SeqsUpTo(BatchRows, MaxBatchRows - Len(a)) :
         sheets = Workbook(a, b)
  /\ checkinCols \in BOOLEAN
  /\ bpc = "step1"
  /\ unique_parents = <<>>
  /\ parent_mapping = {}
  /\ children_unique = <<>>
  /\ child_lookup = {}
  /\ attendance_df = <<>>
  /\ exported = {}
  /\ validation = {}

BatchIdle ==
  /\ sheets = <<>>
  /\ checkinCols = FALSE
  /\ bpc = "off"
  /\ unique_parents = <<>>
  /\ parent_mapping = {}
  /\ children_unique = <<>>
  /\ child_lookup = {}
  /\ attendance_df = <<>>
  /\ exported = {}
  /\ validation = {}

\* STEP 1: CREATE UNIQUE PARENTS
Step1 ==
  /\ bpc = "step1"
  /\ unique_parents' = UniqueParents(sheets)
  /\ parent_mapping' = ParentMapping(UniqueParents(sheets))
  /\ bpc' = "step2"
  /\ UNCHANGED <<sheets, checkinCols, children_unique, child_lookup,
                 attendance_df, exported, validation>>

\* STEP 2: CREATE UNIQUE CHILDREN.  With no child record at all the frame has
\* no 'dedupe_key' column and drop_duplicates raises KeyError.
Step2 ==
  LET all_children == AllChildren(sheets, parent_mapping) IN
  /\ bpc = "step2"
  /\ IF all_children = <<>>
       THEN /\ bpc' = "crashed"
            /\ UNCHANGED <<children_unique, child_lookup>>
       ELSE /\ bpc' = "step3"
            /\ children_unique' = ChildrenUnique(all_children)
            /\ child_lookup' = ChildLookup(ChildrenUnique(all_children))
  /\ UNCHANGED <<sheets, checkinCols, unique_parents, parent_mapping,
                 attendance_df, exported, validation>>

\* STEP 3: CREATE ATTENDANCE RECORDS
Step3 ==
  /\ bpc = "step3"
  /\ attendance_df' =
       AttendanceDf(AllAttendance(sheets, parent_mapping, child_lookup, checkinCols))
  /\ bpc' = "step4"
  /\ UNCHANGED <<sheets, checkinCols, unique_parents, parent_mapping,
                 children_unique, child_lookup, exported, validation>>

\* STEP 4: EXPORT FILES
Step4 ==
  /\ bpc = "step4"
  /\ exported' = {"parents_final.csv", "children_final.csv"}
       \cup (IF Len(attendance_df) > 0 THEN {"attendance_final.csv"} ELSE {})
  /\ bpc' = "validation"
  /\ UNCHANGED <<sheets, checkinCols, unique_parents, parent_mapping,
                 children_unique, child_lookup, attendance_df, validation>>

\* The second check made only when the first one passed.
ValidationStoppingAtFirst ==
  LET orphaned == Column(attendance_df, "child_id") \ Column(children_unique, "child_id")
      orphaned_children ==
        Column(children_unique, "parent_id") \ Column(unique_parents, "parent_id")
  IN
  /\ bpc = "validation"
  /\ validation' =
       IF Len(attendance_df) > 0 /\ orphaned # {}
         THEN {"attendance ERROR"}
         ELSE (IF Len(attendance_df) > 0 THEN {"attendance ok"} ELSE {})
              \cup {IF orphaned_children = {} THEN "children ok" ELSE "children ERROR"}
  /\ bpc' = "end"
  /\ UNCHANGED <<sheets, checkinCols, unique_parents, parent_mapping,
                 children_unique, child_lookup, attendance_df, exported>>

\* VALIDATION: the two orphan checks and what they print
Validation ==
  LET orphaned == Column(attendance_df, "child_id") \ Column(children_unique, "child_id")
      orphaned_children ==
        Column(children_unique, "parent_id") \ Column(unique_parents, "parent_id")
  IN
  /\ bpc = "validation"
  /\ validation' =
       (IF Len(attendance_df) > 0
          THEN {IF orphaned = {} THEN "attendance ok" ELSE "attendance ERROR"}
          ELSE {})
       \cup {IF orphaned_children = {} THEN "children ok" ELSE "children ERROR"}
  /\ bpc' = "end"
  /\ UNCHANGED <<sheets, checkinCols, unique_parents, parent_mapping,
                 children_unique, child_lookup, attendance_df, exported>>

BatchNext ==
  \/ Step1
  \/ Step2
  \/ Step3
  \/ Step4
  \/ Validation

\* ------------------------------------------------------------ specifications
Init ==
  \/ mode = "incremental" /\ IncInit /\ BatchIdle
  \/ mode = "batch" /\ IncInit /\ BatchInit

Next ==
  \/ /\ \E c \in Conns, n \in 1..MaxRows, absent \in AbsentColumns :
          StartRun(c, n, absent, FALSE)
     /\ UNCHANGED batchVars
  \/ /\ \E c \in Conns : IncStep(c, IncRows)
     /\ UNCHANGED batchVars
  \/ Tick /\ UNCHANGED batchVars
  \/ BatchNext /\ mode = "batch" /\ UNCHANGED incVars

\* One program at a time: runs of process_attendance one after the other, or
\* the batch script.
Spec == Init /\ [][Next]_vars

\* The submissions of overlapping runs: one family, twice the same day, and
\* another phone.
ConcRows ==
  { IncRow(Cell(<<"p">>), Cell(<<"1">>), Cell(109), <<SlotJ, SlotBlank, SlotBlank>>),
    IncRow(Cell(<<"p">>), Cell(<<"1">>), Cell(111), <<SlotJ2, SlotJ0, SlotBlank>>),
    IncRow(Cell(<<"p">>), Cell(<<"2", " ">>), Cell(109), <<SlotJ, SlotBlank, SlotBlank>>) }

\* The store and the connections before any run, the batch script not started.
InitConc == mode = "incremental" /\ IncInit /\ BatchIdle

NextConc ==
  \/ /\ \E c \in Conns, n \in 1..MaxRows :
          StartRun(c, n, {}, TRUE)
     /\ UNCHANGED batchVars
  \/ /\ \E c \in Conns : IncStep(c, ConcRows)
     /\ UNCHANGED batchVars
  \/ Tick /\ UNCHANGED batchVars

\* Runs of process_attendance that may overlap, each on its own connection.
SpecConc == InitConc /\ [][NextConc]_vars

\* Tables of at most MaxTableRows rows each, numbered from 1 as STEP 1 to 3
\* number them, whose references range over 1..MaxId.
ParentTables ==
  {[i \in 1..n |-> [parent_id |-> i, original_id |-> Cell(10 * i),
                    full_name |-> Cell(<<"p">>)]] : n \in 0..MaxTableRows}

ChildTables ==
  UNION {[1..n -> 1..MaxId] : n \in 0..MaxTableRows}

AttendanceTables ==
  UNION {[1..n -> 1..MaxId] : n \in 0..MaxTableRows}

\* The script at its VALIDATION section, over any three tables.
InitValidation ==
  /\ mode = "batch" /\ IncInit
  /\ sheets = <<>>
  /\ checkinCols = FALSE
  /\ bpc = "validation"
  /\ unique_parents \in ParentTables
  /\ parent_mapping = {}
  /\ \E t \in ChildTables :
       children_unique =
         [i \in 1..Len(t) |-> [child_id |-> i, parent_id |-> t[i], full_name |-> <<"j">>,
                               age |-> 8, gender |-> <<"Female">>]]
  /\ child_lookup = {}
  /\ \E t \in AttendanceTables :
       attendance_df =
         [i \in 1..Len(t) |-> [attendance_id |-> i, child_id |-> t[i],
                               service_name |-> SheetNames[1],
                               attendance_date |-> ATTENDANCE_DATE]]
  /\ exported = {}
  /\ validation = {}

NextValidation == Validation /\ UNCHANGED incVars

\* The VALIDATION section alone, as a function of the three tables.
SpecValidation == InitValidation /\ [][NextValidation]_vars

\* ------------------------------------------------------------------ properties
\* The tables a statement can see: the committed ones and each connection's view.
Stores == {committed} \cup {Visible(c) : c \in Conns}

ParentsUnique(t) ==
  \A p, q \in t.parents : p.phone_number = q.phone_number => p = q

ChildKey(ch) == <<ch.parent_id, Upper(Strip(ch.full_name)), ch.age>>

ChildKeysUnique(t) ==
  \A a, b \in t.children : ChildKey(a) = ChildKey(b) => a = b

AttendanceUnique(t) ==
  \A a, b \in t.attendance : AttendanceKey(a) = AttendanceKey(b) => a = b

ReferencesHold(t) ==
  /\ \A a \in t.attendance : \E ch \in t.children : ch.child_id = a.child_id
  /\ \A ch \in t.children : \E p \in t.parents : p.parent_id = ch.parent_id

SubTables(t, u) ==
  /\ t.parents \subseteq u.parents
  /\ t.children \subseteq u.children
  /\ t.attendance \subseteq u.attendance

\* A check-in value that is there and is not zero.
Truthy(ci) == ~IsNa(ci) /\ ci.v # 0

\* The script is past STEP 3: the three tables are built.
BatchBuilt == bpc \in {"step4", "validation", "end"}

\* The slots of the workbook: sheet, row and slot numbers.
BatchSlots ==
  {<<s, r, k>> \in (1..Len(sheets)) \X (1..MaxBatchRows + 1) \X (1..NumSlots) :
     r <= Len(sheets[s].rows)}

SlotAt(x) == sheets[x[1]].rows[x[2]].kids[x[3]]
SlotParent(x) == MappingGet(parent_mapping, sheets[x[1]].rows[x[2]].ID)
SlotKey(x) ==
  DedupeKey(SlotParent(x), Strip(Str(SlotAt(x).name)), CleanAge(SlotAt(x).age))
\* A slot STEP 2 and STEP 3 process: its parent is mapped and it has a name.
SlotLive(x) == SlotParent(x) # None /\ ~SlotIsEmpty(SlotAt(x))

\* C1, as claimed: for every submission, a second pass over it against the
\* store the first pass left changes neither the number of Parent rows nor of
\* Child rows, adds no Attendance row and records no attendance.
C1_SecondPass(c) == run[c].g.rowDone /\ run[c].g.repeat

C1_NoEffect(c) ==
  /\ Counts(c).p = run[c].g.start.p
  /\ Counts(c).c = run[c].g.start.c
  /\ Counts(c).a = run[c].g.start.a
  /\ run[c].stats.attendance_recorded = run[c].g.start.rec

C1_Idempotence == \A c \in Conns : C1_SecondPass(c) => C1_NoEffect(c)

\* C1, amended: the second pass has no effect when the export has a Timestamp
\* column or both passes read the same date.today().
C1_IdempotenceSameDate ==
  \A c \in Conns :
    C1_SecondPass(c) /\ ("Timestamp" \notin run[c].absent \/ run[c].g.sameDay)
      => C1_NoEffect(c)

C1_Witness ==
  \E c \in Conns :
    /\ C1_SecondPass(c)
    /\ "Timestamp" \notin run[c].absent
    /\ ~run[c].g.rejected /\ ~run[c].g.raised
    /\ run[c].g.start.a > 0
    /\ run[c].stats.existing_children > 0

\* C2: in both modes the Attendance table never holds two rows with the same
\* (child_id, service_name, attendance_date).
C2_AttendanceUnique ==
  /\ \A t \in Stores : AttendanceUnique(t)
  /\ \A i, j \in 1..Len(attendance_df) :
       AttendanceKey(attendance_df[i]) = AttendanceKey(attendance_df[j]) => i = j

\* C3: in both modes an Attendance row is created only for a slot whose
\* check-in value is there and truthy.
C3_IncGate ==
  \A c \in Conns :
    (run[c].pc = "att_ins" /\ ~(work'[c].attendance \subseteq work[c].attendance))
      => Truthy(run[c].loc.row.kids[run[c].loc.child_num].ci)

C3_BatchGate ==
  \A i \in 1..Len(attendance_df) :
    \E x \in BatchSlots :
      /\ SlotLive(x)
      /\ sheets[x[1]].name = attendance_df[i].service_name
      /\ LookupGet(child_lookup, SlotKey(x)) = attendance_df[i].child_id
      /\ checkinCols /\ Truthy(SlotAt(x).ci)

C3_PresenceGating == [][C3_IncGate /\ C3_BatchGate']_vars

\* C4: the store never holds two Parents with one phone nor two Children with
\* one (parent_id, upper-cased trimmed name, age); the parent and the child a
\* row resolves to are the stored rows with its keys, and within a run one
\* child key always resolves to one child_id.  In batch mode the Parents have
\* distinct original ids, the Children distinct keys, and every row's parent_id
\* is that of the Parent with its original id.
C4_Incremental ==
  /\ \A t \in Stores : ParentsUnique(t) /\ ChildKeysUnique(t)
  /\ \A c \in Conns :
       /\ run[c].loc.parent_id # None =>
            \E p \in Visible(c).parents :
              /\ p.parent_id = run[c].loc.parent_id
              /\ p.phone_number = run[c].loc.parent_phone
       /\ run[c].pc = "att_ins" =>
            \E ch \in Visible(c).children :
              /\ ch.child_id = run[c].loc.child_id
              /\ ChildKey(ch) = <<run[c].loc.parent_id, Upper(run[c].loc.child_name),
                                  run[c].loc.child_age>>
       /\ \A r1, r2 \in resolved[c] :
            (r1.parent_id = r2.parent_id /\ r1.name = r2.name /\ r1.age = r2.age)
              => r1.child_id = r2.child_id

C4_Batch ==
  /\ \A i, j \in 1..Len(unique_parents) :
       unique_parents[i].original_id = unique_parents[j].original_id => i = j
  /\ \A i, j \in 1..Len(children_unique) :
       ChildKey(children_unique[i]) = ChildKey(children_unique[j]) => i = j
  /\ bpc # "step1" =>
       \A x \in BatchSlots :
         SlotParent(x) # None =>
           \E i \in 1..Len(unique_parents) :
             /\ unique_parents[i].parent_id = SlotParent(x)
             /\ unique_parents[i].original_id = sheets[x[1]].rows[x[2]].ID
  /\ BatchBuilt =>
       \A x \in BatchSlots :
         SlotLive(x) =>
           \E i \in 1..Len(children_unique) :
             /\ children_unique[i].child_id = LookupGet(child_lookup, SlotKey(x))
             /\ ChildKey(children_unique[i]) = SlotKey(x)

C4_KeyStability == C4_Incremental /\ C4_Batch

\* A second row of the same phone found its parent, and a slot whose name
\* differs in case and white space from the stored one found its child.
C4_Witness ==
  \E c \in Conns :
    /\ run[c].pc = "att_ins"
    /\ run[c].stats.existing_parents > 0
    /\ \E ch \in Visible(c).children :
         /\ ch.child_id = run[c].loc.child_id
         /\ ch.full_name # run[c].loc.child_name

\* C5: two slots under one parent with the same normalized name and different
\* ages resolve to different child_ids, in both modes.
C5_Incremental ==
  \A c \in Conns :
    /\ \A r1, r2 \in resolved[c] :
         (r1.parent_id = r2.parent_id /\ r1.name = r2.name /\ r1.age # r2.age)
           => r1.child_id # r2.child_id
    /\ run[c].pc = "att_ins" =>
         \A ch \in Visible(c).children :
           (/\ ch.parent_id = run[c].loc.parent_id
            /\ Upper(ch.full_name) = Upper(run[c].loc.child_name)
            /\ ch.age # run[c].loc.child_age)
             => ch.child_id # run[c].loc.child_id

C5_Batch ==
  BatchBuilt =>
    \A x, y \in BatchSlots :
      (/\ SlotLive(x) /\ SlotLive(y)
       /\ SlotParent(x) = SlotParent(y)
       /\ SlotKey(x)[2] = SlotKey(y)[2]
       /\ SlotKey(x)[3] # SlotKey(y)[3])
        => /\ LookupGet(child_lookup, SlotKey(x)) # None
           /\ LookupGet(child_lookup, SlotKey(y)) # None
           /\ LookupGet(child_lookup, SlotKey(x)) # LookupGet(child_lookup, SlotKey(y))

C5_AgeSensitivity == C5_Incremental /\ C5_Batch

C5_Witness ==
  \E c \in Conns :
    \E r1, r2 \in resolved[c] :
      r1.parent_id = r2.parent_id /\ r1.name = r2.name /\ r1.age # r2.age

\* C6: every Attendance row's child_id is the id of a Child and every Child's
\* parent_id the id of a Parent, in every store state and in the batch tables.
C6_ReferentialIntegrity ==
  /\ \A t \in Stores : ReferencesHold(t)
  /\ Column(attendance_df, "child_id") \subseteq Column(children_unique, "child_id")
  /\ Column(children_unique, "parent_id") \subseteq Column(unique_parents, "parent_id")

\* A run with a rejected or failed row has committed attendance.
C6_Witness ==
  \E c \in Conns :
    /\ run[c].pc = "done"
    /\ run[c].stats.errors > 0
    /\ committed.attendance # {}

\* C7: a row whose parent name or phone is missing or empty creates nothing and
\* adds exactly one to the error count.
C7_RowRejected(absent, row) ==
  \/ "Your Phone" \in absent
  \/ MissingOrEmpty(row.phone)
  \/ MissingOrEmpty(row.name)

C7_RejectedRow ==
  \A c \in Conns :
    (run[c].g.rowDone /\ C7_RowRejected(prev.absent, prev.row))
      => /\ Counts(c).p = run[c].g.start.p
         /\ Counts(c).c = run[c].g.start.c
         /\ Counts(c).a = run[c].g.start.a
         /\ run[c].stats.errors = run[c].g.start.err + 1

\* C8: the rows a run finished without an exception are in the store after the
\* run, whatever happened to the rows after them.
C8_CommitPerRow ==
  \A c \in Conns :
    run[c].pc \in {"done", "failed"} => SubTables(run[c].cleanWork, committed)

\* C9, as claimed: with overlapping runs the store still holds one Parent per
\* phone, one Child per key and one Attendance row per (child, service, date).
C9_ConcurrentSafe ==
  ParentsUnique(committed) /\ ChildKeysUnique(committed) /\ AttendanceUnique(committed)

\* C9, amended: with overlapping runs the store holds one Attendance row per
\* (child, service, date); one Parent per phone and one Child per key are kept
\* by runs that never overlapped.
C9_AttendanceSafe ==
  /\ AttendanceUnique(committed)
  /\ (\A c \in Conns : ~run[c].overlapped)
       => ParentsUnique(committed) /\ ChildKeysUnique(committed)

\* Two overlapping runs have committed, one having found the other's
\* attendance row in its way.
C9_Witness ==
  /\ \A c \in Conns : run[c].overlapped /\ run[c].pc = "done"
  /\ committed.attendance # {}
  /\ \E c \in Conns :
       run[c].stats.existing_children > run[c].stats.attendance_recorded

\* C10: a child checked in under one original id on k sheets comes out as one
\* Parent, one Child and k Attendance rows, one per service.
C10_Sheets(id, name, age) ==
  {x[1] : x \in {y \in BatchSlots :
     /\ SlotLive(y)
     /\ sheets[y[1]].rows[y[2]].ID = id
     /\ Upper(Strip(Str(SlotAt(y).name))) = name
     /\ CleanAge(SlotAt(y).age) = age
     /\ WasPresent(checkinCols, SlotAt(y))}}

C10_Rows(id, name, age) ==
  {i \in 1..Len(attendance_df) :
     attendance_df[i].child_id =
       LookupGet(child_lookup, <<MappingGet(parent_mapping, id), name, age>>)}

C10_CrossSheet ==
  bpc = "end" =>
    \A x \in BatchSlots :
      LET id == sheets[x[1]].rows[x[2]].ID
          name == SlotKey(x)[2]
          age == SlotKey(x)[3]
      IN  (SlotLive(x) /\ C10_Sheets(id, name, age) # {}) =>
            /\ Cardinality({i \in 1..Len(unique_parents) :
                              unique_parents[i].original_id = id}) = 1
            /\ Cardinality({i \in 1..Len(children_unique) :
                              ChildKey(children_unique[i]) = SlotKey(x)}) = 1
            /\ Cardinality(C10_Rows(id, name, age))
                 = Cardinality(C10_Sheets(id, name, age))
            /\ {attendance_df[i].service_name : i \in C10_Rows(id, name, age)}
                 = {sheets[s].name : s \in C10_Sheets(id, name, age)}

\* The original ids of the workbook's rows, and the keys of its live slots.
C11_Ids == {sheets[x[1]].rows[x[2]].ID : x \in BatchSlots}

C11_Rank(id) == 1 + Cardinality({x \in C11_Ids : IdBefore(x, id)})

C11_Keys == {SlotKey(x) : x \in {y \in BatchSlots : SlotLive(y)}}

\* C11: the N distinct original ids get the parent_ids 1..N in ascending order
\* of original id, whatever the order of the sheets and rows (a parent's id is
\* its id's rank in the set of ids), and the M distinct child keys get the
\* child_ids 1..M.
C11_IdDeterminism ==
  /\ bpc \in {"step2", "step3", "step4", "validation", "end", "crashed"} =>
       /\ Len(unique_parents) = Cardinality(C11_Ids)
       /\ \A i \in 1..Len(unique_parents) :
            /\ unique_parents[i].parent_id = i
            /\ unique_parents[i].parent_id = C11_Rank(unique_parents[i].original_id)
       /\ parent_mapping = {<<id, C11_Rank(id)>> : id \in C11_Ids}
  /\ BatchBuilt =>
       /\ Len(children_unique) = Cardinality(C11_Keys)
       /\ \A i \in 1..Len(children_unique) : children_unique[i].child_id = i
       /\ {ChildKey(children_unique[i]) : i \in 1..Len(children_unique)} = C11_Keys

\* The script ended on a workbook whose first row has the larger of two ids,
\* with two distinct children.
C11_Witness ==
  /\ bpc = "end"
  /\ Len(unique_parents) >= 2
  /\ Len(children_unique) >= 2
  /\ \E x, y \in BatchSlots :
       /\ x[1] < y[1] \/ (x[1] = y[1] /\ x[2] < y[2])
       /\ IdBefore(sheets[y[1]].rows[y[2]].ID, sheets[x[1]].rows[x[2]].ID)

\* The Parent, the Children and the Attendance of row r are in the store.
C12_RowStored(absent, r) ==
  \E p \in committed.parents :
    /\ p.phone_number = Strip(Str(RowGet(absent, "Your Phone", r.phone, Cell(<<>>))))
    /\ \A k \in 1..NumSlots :
         Strip(Str(r.kids[k].name)) # <<>> =>
           \E ch \in committed.children :
             /\ ChildMatches(ch, p.parent_id, Strip(Str(r.kids[k].name)),
                             CleanAge(r.kids[k].age))
             /\ \E a \in committed.attendance :
                  /\ a.child_id = ch.child_id
                  /\ a.service_name = Strip(Str(r.service))
                  /\ "Timestamp" \notin absent => a.attendance_date = TimestampDate(r.ts)

\* C12: when a row of a run raised, the run still ends normally and every later
\* valid row has its Parent, Children and Attendance in the store after the run.
C12_FailureIsolation ==
  \A c \in Conns :
    (run[c].pc \in {"done", "failed"} /\ run[c].hasRaised) =>
      /\ run[c].pc = "done"
      /\ \A r \in run[c].later : C12_RowStored(run[c].absent, r)

\* C13: once the store is unavailable to a run, the run's only step is to stop
\* with the failure handed to its caller: the failure is not counted as a row's
\* error and no further row or statement is tried.
C13_Step(c) ==
  run'[c].txn = "down" => (run'[c] = run[c] \/ run'[c].pc = "failed")

C13_CollaboratorAborts == [][\A c \in Conns : C13_Step(c)]_vars

\* Every Parent and Child row of the store, committed or not.
C14_Parents(w) == committed.parents \cup UNION {w[c].parents : c \in Conns}
C14_Children(w) == committed.children \cup UNION {w[c].children : c \in Conns}

\* No step changes a stored Parent or Child.
C14_NoOverwrite ==
  /\ \A p \in C14_Parents(work) : \A q \in C14_Parents(work') :
       p.parent_id = q.parent_id => p = q
  /\ \A a \in C14_Children(work) : \A b \in C14_Children(work') :
       a.child_id = b.child_id => a = b

\* Slot x comes before slot y in the workbook.
C14_Before(x, y) ==
  \/ x[1] < y[1]
  \/ x[1] = y[1] /\ x[2] < y[2]
  \/ x[1] = y[1] /\ x[2] = y[2] /\ x[3] < y[3]

\* The batch Parents and Children have the attributes of the first row and of
\* the first slot with their key.
C14_BatchFirst ==
  /\ bpc \in {"step2", "step3", "step4", "validation", "end", "crashed"} =>
       \A i \in 1..Len(unique_parents) :
         \E x \in BatchSlots :
           /\ sheets[x[1]].rows[x[2]].ID = unique_parents[i].original_id
           /\ \A y \in BatchSlots :
                sheets[y[1]].rows[y[2]].ID = unique_parents[i].original_id
                  => ~C14_Before(y, <<x[1], x[2], 1>>)
           /\ unique_parents[i].full_name = sheets[x[1]].rows[x[2]].full_name
  /\ BatchBuilt =>
       \A i \in 1..Len(children_unique) :
         \E x \in BatchSlots :
           /\ SlotLive(x) /\ SlotKey(x) = ChildKey(children_unique[i])
           /\ \A y \in BatchSlots :
                (SlotLive(y) /\ SlotKey(y) = SlotKey(x)) => ~C14_Before(y, x)
           /\ children_unique[i].full_name = Strip(Str(SlotAt(x).name))
           /\ children_unique[i].gender = Strip(Str(SlotAt(x).gender))
           /\ children_unique[i].parent_id = SlotParent(x)

\* C14: no later row changes a Parent or a Child that exists (incremental), and
\* the batch tables keep the first-encountered row's attributes.
C14_FirstSightingWins == [][C14_NoOverwrite /\ C14_BatchFirst']_vars

\* The batch ended on a workbook where one child key is sighted twice with
\* different attributes and one original id twice with different names.
C14_Witness ==
  /\ bpc = "end"
  /\ \E x, y \in BatchSlots :
       /\ SlotLive(x) /\ SlotLive(y) /\ SlotKey(x) = SlotKey(y)
       /\ SlotAt(x).gender # SlotAt(y).gender
  /\ \E x, y \in BatchSlots :
       /\ sheets[x[1]].rows[x[2]].ID = sheets[y[1]].rows[y[2]].ID
       /\ sheets[x[1]].rows[x[2]].full_name # sheets[y[1]].rows[y[2]].full_name

\* The attendance insert of connection c: the count goes up by one exactly when
\* the insert adds a row, and an insert that hits an existing triple does not raise.
C15_Insert(c) ==
  (run[c].pc = "att_ins" /\ run'[c] # run[c] /\ run[c].txn = "ok" /\ run'[c].txn = "ok"
     /\ run[c].loc.attendance_date # NaT) =>
    /\ run'[c].stats.attendance_recorded - run[c].stats.attendance_recorded
         = Cardinality(work'[c].attendance) - Cardinality(work[c].attendance)
    /\ run'[c].stats.errors = run[c].stats.errors

\* At the end of a run attendance_recorded is the number of Attendance rows the
\* run added to the store.
C15_AtEnd ==
  \A c \in Conns :
    run[c].pc \in {"done", "failed"} =>
      run[c].stats.attendance_recorded
        = Cardinality(committed.attendance) - run[c].base.a

\* C15: attendance_recorded counts the inserts that add a row, and at the end
\* of a run it is the number of Attendance rows the run added to the store.
C15_AttendanceCounting == [][(\A c \in Conns : C15_Insert(c)) /\ C15_AtEnd']_vars

\* Connection c has just finished, without rejecting it and without an
\* exception, a row whose three child slots are empty.
C16_ChildlessRowDone(c) ==
  /\ run[c].g.rowDone /\ ~run[c].g.rejected /\ ~run[c].g.raised
  /\ \A k \in 1..NumSlots : Strip(Str(prev.row.kids[k].name)) = <<>>

\* C16, as claimed: a valid row whose child slots are all empty creates no Parent.
C16_LazyParent ==
  \A c \in Conns : C16_ChildlessRowDone(c) => Counts(c).p = run[c].g.start.p

\* C16, amended: the Parent is found or created before the child slots are
\* looked at, so after such a row the Parent of its phone exists, created by the
\* row when it did not exist, and the row adds no Child and no Attendance.
C16_EagerParent ==
  \A c \in Conns :
    C16_ChildlessRowDone(c) =>
      /\ \E p \in Visible(c).parents :
           p.phone_number =
             Strip(Str(RowGet(prev.absent, "Your Phone", prev.row.phone, Cell(<<>>))))
      /\ Counts(c).p - run[c].g.start.p \in {0, 1}
      /\ run[c].g.repeat => Counts(c).p = run[c].g.start.p
      /\ Counts(c).c = run[c].g.start.c
      /\ Counts(c).a = run[c].g.start.a

\* A row without children has created its Parent.
C16_Witness ==
  \E c \in Conns :
    C16_ChildlessRowDone(c) /\ Counts(c).p = run[c].g.start.p + 1

\* C17: in STEP 2 and STEP 3 the parent lookup succeeds for every row, and in
\* STEP 3 the child-key lookup succeeds for every non-empty child slot.
C17_LookupsNeverMiss ==
  /\ bpc \in {"step2", "step3", "step4", "validation", "end", "crashed"} =>
       \A x \in BatchSlots : SlotParent(x) # None
  /\ BatchBuilt =>
       \A x \in BatchSlots :
         ~SlotIsEmpty(SlotAt(x)) => LookupGet(child_lookup, SlotKey(x)) # None

\* The date of the row connection c is processing: the date part of its
\* timestamp, or the date.today() read when the row was taken up.
C18_RowDate(c) ==
  IF "Timestamp" \in run[c].absent THEN run[c].g.day
  ELSE TimestampDate(run[c].loc.row.ts)

\* C18: every Attendance row a submission creates carries the one date derived
\* when the row was taken up, whatever the slot and whenever it is inserted.
C18_OneDatePerRow ==
  [][\A c \in Conns :
       \A a \in work'[c].attendance \ work[c].attendance :
         a.attendance_date = C18_RowDate(c)]_vars

\* A row without timestamp has recorded two attendances, midnight having passed
\* since the row was taken up.
C18_Witness ==
  \E c \in Conns :
    /\ "Timestamp" \in run[c].absent
    /\ run[c].pc = "slot"
    /\ today # run[c].g.day
    /\ Counts(c).a >= run[c].g.start.a + 2

\* C19: the validation changes none of the three tables, and it reports the
\* attendance failure exactly when an Attendance child_id is not in Children
\* and the children failure exactly when a Children parent_id is not in
\* Parents, each whatever the other check found.
C19_Report ==
  /\ "attendance ERROR" \in validation' <=>
       ~(Column(attendance_df, "child_id") \subseteq Column(children_unique, "child_id"))
  /\ "children ERROR" \in validation' <=>
       ~(Column(children_unique, "parent_id") \subseteq Column(unique_parents, "parent_id"))

C19_ValidatorFrame ==
  [][(bpc = "validation" /\ bpc' = "end") =>
       /\ unique_parents' = unique_parents
       /\ children_unique' = children_unique
       /\ attendance_df' = attendance_df
       /\ C19_Report]_vars

\* The validation has reported both failures.
C19_Witness ==
  /\ bpc = "end"
  /\ {"attendance ERROR", "children ERROR"} \subseteq validation

\* C20: at the end of a run in which no row raised, every row is counted once
\* as a new parent, an existing parent or an error, new_parents and
\* new_children are the Parent and Child rows the run added, and the children
\* counted are the child slots with a name in the rows that were not rejected.
C20_StatsAccounting ==
  \A c \in Conns :
    (run[c].pc = "done" /\ ~run[c].hasRaised) =>
      LET st == run[c].stats IN
      /\ st.total_submissions = st.new_parents + st.existing_parents + st.errors
      /\ st.new_parents = Cardinality(committed.parents) - run[c].base.p
      /\ st.new_children = Cardinality(committed.children) - run[c].base.c
      /\ st.new_children + st.existing_children = run[c].named

====
